---- MODULE Spec2Model ----
(***************************************************************************)
(* A model of the CSV merger and analyzer pipeline of src/app.py (main):   *)
(* read the uploaded CSV files, concatenate them, check the required       *)
(* columns, remove duplicate keywords, sort by search volume, filter on    *)
(* the domain/competitor positions, and build one final row per            *)
(* competitor URL.                                                         *)
(*                                                                         *)
(* A data frame is a sequence of rows; a row is a function from column     *)
(* names to cells.  A cell of a text column is a string, or NA when the    *)
(* CSV cell is empty.  A cell of a column that pandas holds as numbers is  *)
(* a natural number, or NaN.  Keyword Difficulty, which main() never       *)
(* coerces, is a column of numbers; its rounded mean is kept in            *)
(* hundredths.                                                             *)
(*                                                                         *)
(* A run starts with at least one uploaded file (with none, line 19 skips  *)
(* the whole body).  The except branch of lines 39-41 is not an action:    *)
(* pd.concat of a non-empty list of frames read by read_csv does not       *)
(* raise.  The Streamlit output other than st.error is not state.          *)
(***************************************************************************)
EXTENDS Integers, Sequences, FiniteSets, TLC

\* Bounds of the model: rows per uploaded file, uploaded files per run.
MaxRows == 3
MaxFiles == 2

\* The missing value of a numeric column (numpy.nan), and of a text column.
NaN == -1
NA == ""

VARIABLES
    uploaded_files,  \* the files handed to st.file_uploader, in upload order
    i,               \* the position of the for loop over uploaded_files
    csv_list,        \* the data frames read so far
    merged_df,       \* pd.concat(csv_list), later sorted in place
    columns,         \* merged_df.columns
    dedup_df,        \* the table after drop_duplicates, later sorted and coerced
    filtered_df,     \* the table after the position filter
    groups,          \* the keys of competitor_groups not yet iterated
    final_rows,      \* the rows appended so far
    final_df,        \* the final table
    position_dtype,  \* the dtype of the 'Domain Position' column of the frames
    pc,              \* the step main() is at
    error            \* what st.error reported, or the exception that left main()

vars == <<uploaded_files, i, csv_list, merged_df, columns, dedup_df, filtered_df,
          groups, final_rows, final_df, position_dtype, pc, error>>

Range(s) == {s[k] : k \in DOMAIN s}

Min(S) == CHOOSE x \in S : \A y \in S : x <= y

Max(S) == CHOOSE x \in S : \A y \in S : x >= y

required_columns ==
    <<"Keyword", "Search Volume", "Keyword Difficulty", "Domain", "Domain Position",
      "Competitor URL">>

AllColumns == Range(required_columns) \cup {"Competitor Position"}

(***************************************************************************)
(* Text and numbers.                                                       *)
(***************************************************************************)

\* The strings of the model in ascending order of Python's str comparison.
StrOrder == <<"a.com", "b.com", "k1", "k2", "k3", "k4", "u1", "u2">>

StrLt(a, b) ==
    (CHOOSE k \in DOMAIN StrOrder : StrOrder[k] = a)
        < (CHOOSE k \in DOMAIN StrOrder : StrOrder[k] = b)

\* Numerals[n + 1] is the decimal text of n.
Numerals == <<"0", "1", "2", "3", "4">>

\* pd.to_numeric(errors='coerce') on one cell: the number a text parses to,
\* NaN for an empty cell or a text that is no number.
to_numeric(v) ==
    IF \E n \in DOMAIN Numerals : Numerals[n] = v
    THEN (CHOOSE n \in DOMAIN Numerals : Numerals[n] = v) - 1
    ELSE NaN

\* FloatText[n + 1] is str() of the float64 n.
FloatText == <<"0.0", "1.0", "2.0", "3.0", "4.0">>

\* The cell x of a column of a dtype as an f-string formats it: an int64 cell
\* as an integer, a float64 cell with its fraction.
format_number(x, dtype) ==
    IF x = NaN THEN "nan"
    ELSE IF dtype = "int64" THEN Numerals[x + 1]
    ELSE FloatText[x + 1]

\* The dtype read_csv infers for a column: int64 when every cell is a whole
\* number, float64 when some are empty, object when a cell is no number or
\* the file has no rows.
column_dtype(df, c) ==
    LET cells == {df.rows[k][c] : k \in DOMAIN df.rows}
    IN  IF cells = {} \/ \E v \in cells : v # NA /\ to_numeric(v) = NaN
        THEN "object"
        ELSE IF NA \in cells THEN "float64" ELSE "int64"

\* The dtype of a column of pd.concat(dfs): a frame without the column gives
\* NaN cells.
concat_dtype(dfs, c) ==
    LET dtypes == {IF c \in dfs[k].columns THEN column_dtype(dfs[k], c) ELSE "float64" :
                      k \in DOMAIN dfs}
    IN  IF "object" \in dtypes THEN "object"
        ELSE IF dtypes = {"int64"} THEN "int64"
        ELSE "float64"

\* The dtype pd.to_numeric(errors='coerce') returns for a column of a dtype
\* and of the given cells.
to_numeric_dtype(dtype, cells) ==
    IF dtype # "object" THEN dtype
    ELSE IF \A v \in cells : to_numeric(v) # NaN THEN "int64"
    ELSE "float64"

\* Comparisons of float cells: every ordered comparison with NaN is False,
\* and NaN != x is True.
Gt(a, b) == a # NaN /\ b # NaN /\ a > b

Ne(a, b) == a = NaN \/ b = NaN \/ a # b

\* == on cells of a text column: False when either side is missing.
EqText(a, b) == a # NA /\ b # NA /\ a = b

RECURSIVE join(_, _)
\* sep.join(xs)
join(sep, xs) ==
    IF xs = <<>> THEN ""
    ELSE IF Len(xs) = 1 THEN xs[1]
    ELSE xs[1] \o sep \o join(sep, Tail(xs))

(***************************************************************************)
(* Data frame operations.                                                  *)
(***************************************************************************)

\* The missing cell pd.concat fills in for a column a frame does not have.
Missing(c) == IF c = "Keyword Difficulty" THEN NaN ELSE NA

\* pd.read_csv on a readable file.
read_csv(f) == [columns |-> f.columns, rows |-> f.rows]

RECURSIVE concat_columns(_)
concat_columns(dfs) ==
    IF dfs = <<>> THEN {} ELSE dfs[1].columns \cup concat_columns(Tail(dfs))

RECURSIVE concat_rows(_, _)
concat_rows(dfs, cols) ==
    IF dfs = <<>> THEN <<>>
    ELSE [k \in 1..Len(dfs[1].rows) |->
            [c \in cols |-> IF c \in dfs[1].columns THEN dfs[1].rows[k][c]
                            ELSE Missing(c)]]
         \o concat_rows(Tail(dfs), cols)

\* The order of sort_values(by=['Domain', 'Keyword']): missing cells last.
LtNaLast(a, b) == a # NA /\ (b = NA \/ StrLt(a, b))

DomainKeywordLess(r, s) ==
    \/ LtNaLast(r["Domain"], s["Domain"])
    \/ /\ r["Domain"] = s["Domain"]
       /\ LtNaLast(r["Keyword"], s["Keyword"])

\* r put into the sorted s behind every row that is not greater than it.
InsertSorted(r, s) ==
    LET later == {k \in 1..Len(s) : DomainKeywordLess(r, s[k])}
        p == IF later = {} THEN Len(s) + 1 ELSE Min(later)
    IN  SubSeq(s, 1, p - 1) \o <<r>> \o SubSeq(s, p, Len(s))

RECURSIVE sort_values_by_domain_keyword(_)
\* sort_values on two columns: a lexsort, which is stable.
sort_values_by_domain_keyword(df) ==
    IF df = <<>> THEN <<>>
    ELSE InsertSorted(df[Len(df)],
                      sort_values_by_domain_keyword(SubSeq(df, 1, Len(df) - 1)))

RECURSIVE drop_duplicates_last(_, _)
\* The rows kept were keep='last'.
drop_duplicates_last(df, col) ==
    IF df = <<>> THEN <<>>
    ELSE IF \E k \in 2..Len(df) : df[k][col] = df[1][col]
         THEN drop_duplicates_last(Tail(df), col)
         ELSE <<df[1]>> \o drop_duplicates_last(Tail(df), col)

\* Were no row dropped.
drop_duplicates_none(df, col) == df

RECURSIVE drop_duplicates(_, _)
\* drop_duplicates(subset=[col], keep='first')
drop_duplicates(df, col) ==
    IF df = <<>> THEN <<>>
    ELSE LET front == SubSeq(df, 1, Len(df) - 1)
             last == df[Len(df)]
         IN  IF \E k \in 1..Len(front) : front[k][col] = last[col]
             THEN drop_duplicates(front, col)
             ELSE Append(drop_duplicates(front, col), last)

Permutations1(n) ==
    {p \in [1..n -> 1..n] : \A a, b \in 1..n : a # b => p[a] # p[b]}

\* Descending order of 'Search Volume', NaN last.
VolumeBefore(r, s) ==
    /\ r["Search Volume"] # NaN
    /\ s["Search Volume"] = NaN \/ r["Search Volume"] > s["Search Volume"]

\* sort_values(by='Search Volume', ascending=False): one column, the default
\* kind 'quicksort', which is not stable: every arrangement in descending
\* order is a possible result.
sort_values_by_search_volume(df) ==
    {[k \in 1..Len(df) |-> df[p[k]]] :
        p \in {q \in Permutations1(Len(df)) :
                 \A a, b \in 1..Len(df) :
                    a < b => ~VolumeBefore(df[q[b]], df[q[a]])}}

\* The mask were the comparison >=.
condition_ge(r) ==
    /\ r["Domain Position"] # NaN
    /\ r["Competitor Position"] # NaN
    /\ r["Domain Position"] >= r["Competitor Position"]
    /\ Ne(r["Domain Position"], 0)

\* The boolean mask of the rows to remove.
condition(r) ==
    /\ Gt(r["Domain Position"], r["Competitor Position"])
    /\ Ne(r["Domain Position"], 0)

RECURSIVE SortedSeq(_)
SortedSeq(S) ==
    IF S = {} THEN <<>>
    ELSE LET m == CHOOSE x \in S : \A y \in S \ {x} : StrLt(x, y)
         IN  <<m>> \o SortedSeq(S \ {m})

\* The keys were groupby(dropna=False): the missing key is a group, the last.
group_keys_keepna(df) ==
    SortedSeq({df[k]["Competitor URL"] : k \in DOMAIN df} \ {NA})
        \o (IF \E k \in DOMAIN df : df[k]["Competitor URL"] = NA THEN <<NA>> ELSE <<>>)

\* The keys of groupby('Competitor URL'): sorted, rows with a missing key left out.
group_keys(df) ==
    SortedSeq({df[k]["Competitor URL"] : k \in DOMAIN df} \ {NA})

\* The group of a key: its rows in the order of the frame.
get_group(df, url) == SelectSeq(df, LAMBDA r : r["Competitor URL"] = url)

\* The label were that of the last row holding the largest volume.
idxmax_last(group) ==
    LET known == {k \in DOMAIN group : group[k]["Search Volume"] # NaN}
        top == Max({group[k]["Search Volume"] : k \in known})
    IN  IF known = {} THEN 0
        ELSE Max({k \in known : group[k]["Search Volume"] = top})

\* Series.idxmax() of group['Search Volume'], as a position in the group:
\* the first row holding the largest volume, NaN skipped; 0 when every
\* volume is NaN (idxmax yields no label, and group.loc raises).
idxmax(group) ==
    LET known == {k \in DOMAIN group : group[k]["Search Volume"] # NaN}
        top == Max({group[k]["Search Volume"] : k \in known})
    IN  IF known = {} THEN 0
        ELSE Min({k \in known : group[k]["Search Volume"] = top})

RECURSIVE nansum(_)
\* Series.sum(): NaN counts as 0.
nansum(xs) ==
    IF xs = <<>> THEN 0
    ELSE (IF xs[1] = NaN THEN 0 ELSE xs[1]) + nansum(Tail(xs))

\* round(Series.mean(), 2) in hundredths; NaN when no cell is known.
round_mean(xs) ==
    LET known == SelectSeq(xs, LAMBDA x : x # NaN)
        n == Len(known)
        s == 100 * nansum(known)
        q == s \div n
        r == s % n
    IN  IF n = 0 THEN NaN
        ELSE IF 2 * r < n THEN q
        ELSE IF 2 * r > n THEN q + 1
        ELSE IF q % 2 = 0 THEN q ELSE q + 1

\* The f-string of line 103.
format_info(x, dtype) ==
    x["Keyword"] \o " (" \o x["Domain"] \o " - "
        \o format_number(x["Domain Position"], dtype) \o ")"

\* The lookup were without the test of the position against 0.
get_domain_info_any_position(row, group_df) ==
    LET domain_ranked ==
            SelectSeq(group_df.rows,
                      LAMBDA x : /\ EqText(x["Keyword"], row["Keyword"])
                                 /\ EqText(x["Domain"], row["Domain"])
                                 /\ x["Domain Position"] # NaN)
    IN  IF domain_ranked # <<>>
        THEN join(", ", [k \in DOMAIN domain_ranked |->
                            format_info(domain_ranked[k], group_df.position_dtype)])
        ELSE ""

\* group_df is the frame searched: its rows and the dtype of its position column.
get_domain_info(row, group_df) ==
    LET domain_ranked ==
            SelectSeq(group_df.rows,
                      LAMBDA x : /\ EqText(x["Keyword"], row["Keyword"])
                                 /\ EqText(x["Domain"], row["Domain"])
                                 /\ Gt(x["Domain Position"], 0))
    IN  IF domain_ranked # <<>>
        THEN join(", ", [k \in DOMAIN domain_ranked |->
                            format_info(domain_ranked[k], group_df.position_dtype)])
        ELSE ""

\* The report were of the first missing column alone.
missing_columns_first(cols) ==
    LET missing == SelectSeq(required_columns, LAMBDA c : c \notin cols)
    IN  IF missing = <<>> THEN <<>> ELSE <<missing[1]>>

\* The list comprehension of line 45, in the order of required_columns.
missing_columns(cols) == SelectSeq(required_columns, LAMBDA c : c \notin cols)

\* The row Series the loop reads the topic and the domain from.
top_keyword_row(group) == group[idxmax(group)]

\* The iteration of the loop over a group raises: at line 115 when every
\* volume of the group is NaN (idxmax has no label to give and the lookup
\* fails), at line 120 when a keyword is missing (str.join meets a float).
raises(group) ==
    \/ idxmax(group) = 0
    \/ \E k \in DOMAIN group : group[k]["Keyword"] = NA

creation_optimization(domain_info) ==
    IF domain_info # "" THEN "Optimization" ELSE "Creation"

\* The keywords were cut to the first of the sorted group.
final_row_head(competitor_url, group, sorted_group, frame) ==
    LET domain_info == get_domain_info(top_keyword_row(group), frame)
    IN  ("Competitor URL" :> competitor_url)
        @@ ("Topic" :> top_keyword_row(group)["Keyword"])
        @@ ("Keywords" :> sorted_group[1]["Keyword"])
        @@ ("Search Volume" :>
                nansum([k \in DOMAIN group |-> group[k]["Search Volume"]]))
        @@ ("Keyword Difficulty" :>
                round_mean([k \in DOMAIN group |-> group[k]["Keyword Difficulty"]]))
        @@ ("Domain's Info" :> domain_info)
        @@ ("Creation or Optimization" :> creation_optimization(domain_info))

\* The dict appended for one group; sorted_group is group.sort_values(...).
final_row(competitor_url, group, sorted_group, frame) ==
    LET top_keywords == [k \in DOMAIN sorted_group |-> sorted_group[k]["Keyword"]]
        domain_info == get_domain_info(top_keyword_row(group), frame)
    IN  ("Competitor URL" :> competitor_url)
        @@ ("Topic" :> top_keyword_row(group)["Keyword"])
        @@ ("Keywords" :> join(", ", top_keywords))
        @@ ("Search Volume" :>
                nansum([k \in DOMAIN group |-> group[k]["Search Volume"]]))
        @@ ("Keyword Difficulty" :>
                round_mean([k \in DOMAIN group |-> group[k]["Keyword Difficulty"]]))
        @@ ("Domain's Info" :> domain_info)
        @@ ("Creation or Optimization" :> creation_optimization(domain_info))

NoError == [kind |-> "none", file |-> 0, missing |-> <<>>]

(***************************************************************************)
(* The uploads of a run.  A file is unreadable, or has a header (its       *)
(* columns) and rows.  Keyword Difficulty cells are numbers or empty, the  *)
(* other cells are text as read from the file.                             *)
(***************************************************************************)

Row(keyword, volume, difficulty, domain, position, url, competitor) ==
    [c \in AllColumns |->
        CASE c = "Keyword" -> keyword
          [] c = "Search Volume" -> volume
          [] c = "Keyword Difficulty" -> difficulty
          [] c = "Domain" -> domain
          [] c = "Domain Position" -> position
          [] c = "Competitor URL" -> url
          [] c = "Competitor Position" -> competitor]

KeywordAt == <<"k1", "k2", "k3", "k4">>

DomainAt == <<"b.com", "a.com", "b.com", "a.com">>

VolumeAt == <<"3", "1", "4", "2">>

DifficultyAt == <<40, 45, NaN, 50>>

PositionAt == <<"1", "0", "x", "2">>

UrlAt == <<"u1", "u2", "u1", "u2">>

\* Rows that repeat keywords over domains.
DuplicateRow(k, c) ==
    Row(c[1], VolumeAt[k], DifficultyAt[k], c[2], "1", UrlAt[k], "1")

DuplicateChoices == {"k1", "k2"} \X {"a.com", "b.com", NA}

\* Rows of distinct keywords that vary the two positions.
PositionRow(k, c) ==
    Row(KeywordAt[k], VolumeAt[k], DifficultyAt[k], DomainAt[k], c[1], "u1", c[2])

PositionChoices == {"x", "0", "1", "2"} \X {NA, "1"}

\* Rows of distinct keywords that vary the volume and the competitor URL.
VolumeRow(k, c) ==
    Row(KeywordAt[k], c[1], DifficultyAt[k], DomainAt[k], PositionAt[k], c[2], "2")

VolumeChoices == {"x", "1", "2"} \X {NA, "u1", "u2"}

\* The k-th row of a table of a kind, built from the choice c.
RowOf(kind, k, c) ==
    CASE kind = "duplicate" -> DuplicateRow(k, c)
      [] kind = "position" -> PositionRow(k, c)
      [] kind = "volume" -> VolumeRow(k, c)

Tables(kind, Choices) ==
    UNION {{[k \in 1..n |-> RowOf(kind, k, c[k])] : c \in [1..n -> Choices]} :
              n \in 0..MaxRows}

DataFile(rows) == [readable |-> TRUE, columns |-> AllColumns, rows |-> rows]

\* The headers of the files that vary the columns.
ColumnChoices ==
    {AllColumns \ S : S \in {T \in SUBSET AllColumns : Cardinality(T) <= 1}}
        \cup {{"Competitor Position"}, AllColumns \ {"Keyword", "Domain"}}

SampleRow(k) == PositionRow(k, <<"1", "1">>)

\* The k-th uploaded file with the header cols and one row.
HeaderFile(k, cols) ==
    [readable |-> TRUE, columns |-> cols,
     rows |-> <<[c \in cols |-> SampleRow(k)[c]]>>]

Unreadable == [readable |-> FALSE, columns |-> {}, rows |-> <<>>]

HeaderUploads ==
    UNION {{[k \in 1..n |-> IF c[k] = {} THEN Unreadable ELSE HeaderFile(k, c[k])] :
                c \in [1..n -> ColumnChoices \cup {{}}]} : n \in 1..MaxFiles}

Uploads ==
    {<<DataFile(t)>> : t \in Tables("duplicate", DuplicateChoices)}
        \cup {<<DataFile(t)>> : t \in Tables("position", PositionChoices)}
        \cup {<<DataFile(t)>> : t \in Tables("volume", VolumeChoices)}
        \cup HeaderUploads

(***************************************************************************)
(* The run of main().                                                      *)
(***************************************************************************)

Init ==
    /\ uploaded_files \in Uploads
    /\ i = 1
    /\ csv_list = <<>>
    /\ merged_df = <<>>
    /\ columns = {}
    /\ dedup_df = <<>>
    /\ filtered_df = <<>>
    /\ groups = <<>>
    /\ final_rows = <<>>
    /\ final_df = <<>>
    /\ position_dtype = "object"
    /\ pc = "read"
    /\ error = NoError

\* Lines 21-27: one file read and appended.
ReadCsv ==
    /\ pc = "read"
    /\ i <= Len(uploaded_files)
    /\ uploaded_files[i].readable
    /\ csv_list' = Append(csv_list, read_csv(uploaded_files[i]))
    /\ i' = i + 1
    /\ UNCHANGED <<uploaded_files, merged_df, columns, dedup_df, filtered_df, groups,
                   final_rows, final_df, position_dtype, pc, error>>

\* Lines 28-30: read_csv raises, the error is shown and main() returns.
ReadCsvError ==
    /\ pc = "read"
    /\ i <= Len(uploaded_files)
    /\ ~uploaded_files[i].readable
    /\ error' = [kind |-> "upload", file |-> i, missing |-> <<>>]
    /\ pc' = "returned"
    /\ UNCHANGED <<uploaded_files, i, csv_list, merged_df, columns, dedup_df,
                   filtered_df, groups, final_rows, final_df, position_dtype>>

\* Lines 34-38: pd.concat(csv_list, ignore_index=True).
Merge ==
    /\ pc = "read"
    /\ i > Len(uploaded_files)
    /\ columns' = concat_columns(csv_list)
    /\ merged_df' = concat_rows(csv_list, columns')
    /\ position_dtype' = concat_dtype(csv_list, "Domain Position")
    /\ pc' = "validate"
    /\ UNCHANGED <<uploaded_files, i, csv_list, dedup_df, filtered_df, groups,
                   final_rows, final_df, error>>

\* Lines 44-48: a required column is missing.
MissingColumns ==
    /\ pc = "validate"
    /\ missing_columns(columns) # <<>>
    /\ error' = [kind |-> "missing_columns", file |-> 0,
                 missing |-> missing_columns(columns)]
    /\ pc' = "returned"
    /\ UNCHANGED <<uploaded_files, i, csv_list, merged_df, columns, dedup_df,
                   filtered_df, groups, final_rows, final_df, position_dtype>>

\* Lines 49-50.
ColumnsPresent ==
    /\ pc = "validate"
    /\ missing_columns(columns) = <<>>
    /\ pc' = "dedup"
    /\ UNCHANGED <<uploaded_files, i, csv_list, merged_df, columns, dedup_df,
                   filtered_df, groups, final_rows, final_df, position_dtype, error>>

\* Lines 55-57: sort in place, then drop the later rows of each keyword.
RemoveDuplicates ==
    /\ pc = "dedup"
    /\ merged_df' = sort_values_by_domain_keyword(merged_df)
    /\ dedup_df' = drop_duplicates(merged_df', "Keyword")
    /\ pc' = "sort"
    /\ UNCHANGED <<uploaded_files, i, csv_list, columns, filtered_df, groups, final_rows,
                   final_df, position_dtype, error>>

\* Lines 64-65.
SortBySearchVolume ==
    /\ pc = "sort"
    /\ LET coerced == [k \in DOMAIN dedup_df |->
                         [dedup_df[k] EXCEPT !["Search Volume"] = to_numeric(@)]]
       IN  dedup_df' \in sort_values_by_search_volume(coerced)
    /\ pc' = "filter"
    /\ UNCHANGED <<uploaded_files, i, csv_list, merged_df, columns, filtered_df, groups,
                   final_rows, final_df, position_dtype, error>>

\* Lines 77-79.
CompetitorPositionMissing ==
    /\ pc = "filter"
    /\ "Competitor Position" \notin columns
    /\ error' = [kind |-> "competitor_position", file |-> 0,
                 missing |-> <<"Competitor Position">>]
    /\ pc' = "returned"
    /\ UNCHANGED <<uploaded_files, i, csv_list, merged_df, columns, dedup_df,
                   filtered_df, groups, final_rows, final_df, position_dtype>>

\* Lines 81-86.
RemoveRows ==
    /\ pc = "filter"
    /\ "Competitor Position" \in columns
    /\ dedup_df' = [k \in DOMAIN dedup_df |->
                      [dedup_df[k] EXCEPT
                          !["Domain Position"] = to_numeric(@),
                          !["Competitor Position"] = to_numeric(@)]]
    /\ position_dtype' =
          to_numeric_dtype(position_dtype,
                           {dedup_df[k]["Domain Position"] : k \in DOMAIN dedup_df})
    /\ filtered_df' = SelectSeq(dedup_df', LAMBDA r : ~condition(r))
    /\ pc' = "group"
    /\ UNCHANGED <<uploaded_files, i, csv_list, merged_df, columns, groups, final_rows,
                   final_df, error>>

\* Lines 109-111.
GroupBy ==
    /\ pc = "group"
    /\ groups' = group_keys(filtered_df)
    /\ final_rows' = <<>>
    /\ pc' = "aggregate"
    /\ UNCHANGED <<uploaded_files, i, csv_list, merged_df, columns, dedup_df,
                   filtered_df, final_df, position_dtype, error>>

\* Lines 113-142: one iteration of the loop over the groups.
AggregateGroup ==
    /\ pc = "aggregate"
    /\ groups # <<>>
    /\ LET group == get_group(filtered_df, Head(groups))
       IN  /\ ~raises(group)
           /\ \E sorted_group \in sort_values_by_search_volume(group) :
                final_rows' = Append(final_rows,
                                     final_row(Head(groups), group, sorted_group,
                                               [rows |-> filtered_df,
                                                position_dtype |-> position_dtype]))
    /\ groups' = Tail(groups)
    /\ UNCHANGED <<uploaded_files, i, csv_list, merged_df, columns, dedup_df,
                   filtered_df, final_df, position_dtype, pc, error>>

\* An iteration that raises; nothing catches the exception.
AggregateGroupRaises ==
    /\ pc = "aggregate"
    /\ groups # <<>>
    /\ raises(get_group(filtered_df, Head(groups)))
    /\ error' = [kind |-> "exception", file |-> 0, missing |-> <<>>]
    /\ pc' = "raised"
    /\ UNCHANGED <<uploaded_files, i, csv_list, merged_df, columns, dedup_df,
                   filtered_df, groups, final_rows, final_df, position_dtype>>

\* Lines 144-147.
CreateFinalTable ==
    /\ pc = "aggregate"
    /\ groups = <<>>
    /\ final_df' = drop_duplicates(final_rows, "Competitor URL")
    /\ pc' = "done"
    /\ UNCHANGED <<uploaded_files, i, csv_list, merged_df, columns, dedup_df,
                   filtered_df, groups, final_rows, position_dtype, error>>

Next ==
    \/ ReadCsv
    \/ ReadCsvError
    \/ Merge
    \/ MissingColumns
    \/ ColumnsPresent
    \/ RemoveDuplicates
    \/ SortBySearchVolume
    \/ CompetitorPositionMissing
    \/ RemoveRows
    \/ GroupBy
    \/ AggregateGroup
    \/ AggregateGroupRaises
    \/ CreateFinalTable

Spec == Init /\ [][Next]_vars

(***************************************************************************)
(* Properties.                                                             *)
(***************************************************************************)

\* The table the Deduplicator receives: the uploads concatenated, unsorted.
MergedInput ==
    LET dfs == [k \in DOMAIN uploaded_files |-> read_csv(uploaded_files[k])]
    IN  concat_rows(dfs, concat_columns(dfs))

\* The positions in the filtered table of the rows of one competitor URL.
GroupOf(url) == {k \in DOMAIN filtered_df : filtered_df[k]["Competitor URL"] = url}

Volume(k) == filtered_df[k]["Search Volume"]

\* The final rows built so far together with those of the final table.
FinalRecords == Range(final_rows) \cup Range(final_df)

AfterFilter == pc \in {"group", "aggregate", "done", "raised"}

Excluded(r) ==
    /\ r["Domain Position"] # NaN
    /\ r["Competitor Position"] # NaN
    /\ r["Domain Position"] > r["Competitor Position"]
    /\ r["Domain Position"] # 0

\* C1: once the filter has run, a row of the deduplicated table is absent from
\* the filtered table exactly when its Domain Position > Competitor Position
\* and its Domain Position != 0, a comparison with a missing operand being
\* false; so a row with a missing position is never excluded and every
\* surviving row fails the exclusion rule.
C1_FilterRule ==
    AfterFilter =>
        /\ \A k \in DOMAIN dedup_df :
              (dedup_df[k] \notin Range(filtered_df)) <=> Excluded(dedup_df[k])
        /\ Range(filtered_df) \subseteq Range(dedup_df)
        /\ Len(filtered_df) = Cardinality(Range(filtered_df))
        /\ \A r \in Range(filtered_df) : ~Excluded(r)
        /\ \A r \in Range(dedup_df) :
              r["Domain Position"] = NaN \/ r["Competitor Position"] = NaN
                  => r \in Range(filtered_df)

C1_Witness ==
    /\ pc = "group"
    /\ \E r \in Range(dedup_df) : r \notin Range(filtered_df)
    /\ \E r \in Range(filtered_df) : r["Domain Position"] = NaN
    /\ \E r \in Range(filtered_df) :
          r["Competitor Position"] = NaN /\ r["Domain Position"] > 0

\* A text cell is smaller than another; a missing cell is the largest.
TextSmaller(a, b) == a # NA /\ (b = NA \/ StrLt(a, b))

\* C2: right after the Deduplicator, its output holds exactly one row for each
\* keyword of the merged table, that row is the one with the smallest Domain
\* among the rows of the keyword (the earliest in the merged table among
\* those), and the output is in (Domain, Keyword) ascending order.
C2_Dedup ==
    pc = "sort" =>
        LET m == MergedInput
            Kept(p) ==
                \A q \in DOMAIN m :
                    q # p /\ m[q]["Keyword"] = m[p]["Keyword"] =>
                        /\ ~TextSmaller(m[q]["Domain"], m[p]["Domain"])
                        /\ m[q]["Domain"] = m[p]["Domain"] => p < q
        IN  /\ \A a, b \in DOMAIN dedup_df :
                  a # b => dedup_df[a]["Keyword"] # dedup_df[b]["Keyword"]
            /\ {dedup_df[a]["Keyword"] : a \in DOMAIN dedup_df}
                  = {m[p]["Keyword"] : p \in DOMAIN m}
            /\ \A a \in DOMAIN dedup_df :
                  \E p \in DOMAIN m : m[p] = dedup_df[a] /\ Kept(p)
            /\ \A a, b \in DOMAIN dedup_df :
                  a < b =>
                      \/ TextSmaller(dedup_df[a]["Domain"], dedup_df[b]["Domain"])
                      \/ /\ dedup_df[a]["Domain"] = dedup_df[b]["Domain"]
                         /\ TextSmaller(dedup_df[a]["Keyword"], dedup_df[b]["Keyword"])

\* Two rows of one keyword and one domain met the Deduplicator and the earlier
\* was kept, and a later row of a keyword had a smaller domain than an earlier.
C2_Witness ==
    /\ pc = "sort"
    /\ LET m == MergedInput
       IN  /\ \E p, q \in DOMAIN m :
                 /\ p < q
                 /\ m[p]["Keyword"] = m[q]["Keyword"]
                 /\ m[p]["Domain"] = m[q]["Domain"]
                 /\ m[p] \in Range(dedup_df)
           /\ \E p, q \in DOMAIN m :
                 /\ p < q
                 /\ m[p]["Keyword"] = m[q]["Keyword"]
                 /\ TextSmaller(m[q]["Domain"], m[p]["Domain"])

\* The distinct competitor URLs of the filtered table; a missing cell is no value.
DistinctUrls == {filtered_df[k]["Competitor URL"] : k \in DOMAIN filtered_df} \ {NA}

\* C3: the final table has as many rows as the filtered table has distinct
\* Competitor URL values, and no two of its rows share a Competitor URL.
C3_AggregationComplete ==
    pc = "done" =>
        /\ Len(final_df) = Cardinality(DistinctUrls)
        /\ \A a, b \in DOMAIN final_df :
              a # b => final_df[a]["Competitor URL"] # final_df[b]["Competitor URL"]

C3_Witness ==
    /\ pc = "done"
    /\ Len(final_df) = 2
    /\ Len(filtered_df) > 2
    /\ \E k \in DOMAIN filtered_df : filtered_df[k]["Competitor URL"] = NA

Terminated == pc \in {"done", "returned", "raised"}

AllReadable == \A k \in DOMAIN uploaded_files : uploaded_files[k].readable

UploadedColumns == UNION {uploaded_files[k].columns : k \in DOMAIN uploaded_files}

\* C4: a run ends either with a final table or with the first validation or
\* parse error in stage order, and a run whose files all parse and hold the
\* seven required columns ends with a final table.
C4_RunOutcome ==
    Terminated =>
        /\ \/ pc = "done" /\ error = NoError
           \/ /\ pc = "returned"
              /\ IF ~AllReadable
                 THEN /\ error.kind = "upload"
                      /\ ~uploaded_files[error.file].readable
                      /\ \A k \in 1..(error.file - 1) : uploaded_files[k].readable
                 ELSE IF ~(Range(required_columns) \subseteq UploadedColumns)
                 THEN error.kind = "missing_columns"
                 ELSE error.kind = "competitor_position"
        /\ AllReadable /\ AllColumns \subseteq UploadedColumns => pc = "done"

MissingRequired == {c \in Range(required_columns) : c \notin columns}

\* C5: once the validator has run, if a required column is absent the run has
\* returned reporting exactly the absent columns and no deduplicated, filtered
\* or final table exists; if none is absent the validator reported nothing.
C5_ValidatorGate ==
    pc \notin {"read", "validate"} /\ error.kind # "upload" =>
        IF MissingRequired # {}
        THEN /\ pc = "returned"
             /\ error.kind = "missing_columns"
             /\ Range(error.missing) = MissingRequired
             /\ Len(error.missing) = Cardinality(MissingRequired)
             /\ dedup_df = <<>>
             /\ filtered_df = <<>>
             /\ final_rows = <<>>
             /\ final_df = <<>>
        ELSE error.kind # "missing_columns"

C5_Witness ==
    /\ pc = "returned"
    /\ error.kind = "missing_columns"
    /\ Len(error.missing) = 2
    /\ Len(uploaded_files) = 2
    /\ merged_df # <<>>

\* C6: the Topic of a final row is the Keyword of the row of its group with the
\* largest Search Volume, the first such row in the order of the filtered
\* table when several share it.
C6_Topic ==
    \A fr \in FinalRecords :
        \E k \in GroupOf(fr["Competitor URL"]) :
            /\ fr["Topic"] = filtered_df[k]["Keyword"]
            /\ Volume(k) # NaN
            /\ \A j \in GroupOf(fr["Competitor URL"]) :
                  Volume(j) # NaN =>
                      \/ Volume(j) < Volume(k)
                      \/ Volume(j) = Volume(k) /\ k <= j

\* Two rows of a group share the largest volume, a third has another, and the
\* Topic is the keyword of the first.
C6_Witness ==
    \E fr \in Range(final_df) :
        \E j, k \in GroupOf(fr["Competitor URL"]) :
            /\ j < k
            /\ Volume(j) = Volume(k)
            /\ Volume(j) # NaN
            /\ fr["Topic"] = filtered_df[j]["Keyword"]
            /\ \E h \in GroupOf(fr["Competitor URL"]) : Volume(h) # Volume(j)

\* Row j of the filtered table comes before row k in descending volume, rows
\* of equal volume in their order in the table, missing volumes last.
StableBefore(j, k) ==
    \/ Volume(j) # NaN /\ (Volume(k) = NaN \/ Volume(j) > Volume(k))
    \/ Volume(j) = Volume(k) /\ j < k

\* The keywords of a group in that order.
StableKeywords(url) ==
    LET G == GroupOf(url)
        order == CHOOSE p \in [1..Cardinality(G) -> G] :
                    \A a, b \in 1..Cardinality(G) : a < b => StableBefore(p[a], p[b])
    IN  [a \in 1..Cardinality(G) |-> filtered_df[order[a]]["Keyword"]]

\* C7: the Keywords of a final row is the ", "-joined list of the keywords of
\* its group, each once, in descending Search Volume, rows of equal volume in
\* their order in the group.
C7_Keywords ==
    \A fr \in FinalRecords :
        fr["Keywords"] = join(", ", StableKeywords(fr["Competitor URL"]))

RECURSIVE Ascending(_)
\* The members of a set of positions in ascending order.
Ascending(S) ==
    IF S = {} THEN <<>> ELSE <<Min(S)>> \o Ascending(S \ {Min(S)})

\* The rows of the whole filtered table that Domain's Info lists for the top
\* row r: same Keyword, same Domain (a missing cell equals nothing), and a
\* Domain Position above 0.
InfoMatches(r) ==
    {k \in DOMAIN filtered_df :
        /\ r["Keyword"] # NA /\ filtered_df[k]["Keyword"] = r["Keyword"]
        /\ r["Domain"] # NA /\ filtered_df[k]["Domain"] = r["Domain"]
        /\ filtered_df[k]["Domain Position"] # NaN
        /\ filtered_df[k]["Domain Position"] > 0}

\* The top-volume row of the group of a final row.
TopRow(fr) ==
    filtered_df[CHOOSE k \in GroupOf(fr["Competitor URL"]) :
                    filtered_df[k]["Keyword"] = fr["Topic"]]

\* C8: Domain's Info of a final row lists one entry for each row of the whole
\* filtered table with the Keyword and the Domain of the group's top-volume row
\* and a Domain Position > 0, and is empty when there is none; Creation or
\* Optimization is "Optimization" exactly when Domain's Info is not empty, and
\* "Creation" otherwise.
C8_CreationOrOptimization ==
    \A fr \in FinalRecords :
        LET M == Ascending(InfoMatches(TopRow(fr)))
        IN  /\ fr["Domain's Info"]
                  = join(", ", [a \in DOMAIN M |->
                                  format_info(filtered_df[M[a]], position_dtype)])
            /\ M = <<>> => fr["Domain's Info"] = ""
            /\ M # <<>> => fr["Domain's Info"] # ""
            /\ fr["Creation or Optimization"]
                  = IF fr["Domain's Info"] # "" THEN "Optimization" ELSE "Creation"
            /\ fr["Creation or Optimization"] = "Optimization" <=> M # <<>>

C8_Witness ==
    /\ pc = "done"
    /\ \E fr \in Range(final_df) :
          /\ fr["Creation or Optimization"] = "Optimization"
          /\ fr["Domain's Info"] # ""
    /\ \E fr \in Range(final_df) :
          /\ fr["Creation or Optimization"] = "Creation"
          /\ TopRow(fr)["Domain Position"] = 0
    /\ Len(filtered_df) > 2

\* C9: Domain's Info of a final row has at most one entry, and the entry
\* describes the top-volume row of the row's own group, whose Keyword is the
\* Topic.
C9_InfoOwnTopRow ==
    \A fr \in FinalRecords :
        \/ fr["Domain's Info"] = ""
        \/ \E k \in GroupOf(fr["Competitor URL"]) :
              /\ filtered_df[k]["Keyword"] = fr["Topic"]
              /\ fr["Domain's Info"] = format_info(filtered_df[k], position_dtype)

\* The Deduplicator dropped a row, two groups were aggregated and a final row
\* has an entry.
C9_Witness ==
    /\ pc = "done"
    /\ Len(dedup_df) < Len(merged_df)
    /\ Len(final_df) = 2
    /\ \E fr \in Range(final_df) : fr["Domain's Info"] # ""

\* The lists of keywords a Keywords field can be the join of.
KeywordLists ==
    UNION {[1..n -> Range(KeywordAt)] :
              n \in 0..(IF MaxRows > MaxFiles THEN MaxRows ELSE MaxFiles)}

\* The Keywords field of a final row split at ", ".
Split(text) == CHOOSE ks \in KeywordLists : join(", ", ks) = text

\* How many times a keyword is listed.
Occurrences(ks, kw) == Cardinality({a \in DOMAIN ks : ks[a] = kw})

\* The rows of the filtered table r ranges over have their Keyword listed once
\* in the final row of their Competitor URL and in no other final row, and the
\* keywords a final row lists are those of the filtered rows of its URL.
NoKeywordLost(Rows) ==
    /\ \A k \in Rows :
          /\ \E a \in DOMAIN final_df :
                final_df[a]["Competitor URL"] = filtered_df[k]["Competitor URL"]
          /\ \A a \in DOMAIN final_df :
                Occurrences(Split(final_df[a]["Keywords"]), filtered_df[k]["Keyword"])
                    = IF final_df[a]["Competitor URL"]
                            = filtered_df[k]["Competitor URL"]
                      THEN 1 ELSE 0
    /\ \A a \in DOMAIN final_df :
          Range(Split(final_df[a]["Keywords"]))
              = {filtered_df[k]["Keyword"] : k \in GroupOf(final_df[a]["Competitor URL"])}

\* C10 as stated: in a run that completes, every row of the filtered table has
\* its Keyword listed in exactly one final row, the one of its Competitor URL,
\* and every keyword a final row lists comes from a filtered row of that URL.
C10_NoKeywordLost == pc = "done" => NoKeywordLost(DOMAIN filtered_df)

\* C10 amended: the same of every row of the filtered table whose Competitor
\* URL is not missing.
C10_NoKeywordLostWithUrl ==
    pc = "done" =>
        NoKeywordLost({k \in DOMAIN filtered_df : filtered_df[k]["Competitor URL"] # NA})

C10_Witness ==
    /\ pc = "done"
    /\ \E k \in DOMAIN filtered_df : filtered_df[k]["Competitor URL"] = NA
    /\ \E a \in DOMAIN final_df : Len(Split(final_df[a]["Keywords"])) = 2

====
